---------------------------- MODULE Spec2Model ----------------------------
(***************************************************************************)
(* Model of the ESLint rule "no-native-console" of                         *)
(* eslint-plugin-shapeshift-logger: the Program handler that gathers the   *)
(* references to `console`, the report it makes for each member access,    *)
(* and the fix callback that rewrites the call to `moduleLogger.<method>`. *)
(*                                                                         *)
(* A text is a sequence of tokens (a string cut into pieces that are never *)
(* looked into), so that concatenation, join and the template literals of  *)
(* the source are computed and not assumed.  A JavaScript value that may   *)
(* be a string, undefined or null is a record [t, v].                      *)
(***************************************************************************)
EXTENDS Integers, Sequences, FiniteSets, TLC

VARIABLES
    filePath,   \* context.getFilename(): the path of the linted file, as tokens
    refs,       \* the references of the file (eslint-scope References), in source order
    scopes,     \* the scope chain of the scope manager; scopes[1] is the global scope
    pc,         \* "ready" | "linted" (Program returned) | "crashed" (Program threw)
    error,      \* the error Program threw, "none" otherwise
    reports,    \* the descriptors handed to context.report, in order
    fixes       \* per report: the outcome of its fix callback once the host has called it

vars == <<filePath, refs, scopes, pc, error, reports, fixes>>

---------------------------------------------------------------------------
(* Bounds of the model *)

\* Most references in a file (specification Spec).
MaxRefs == 2

\* Most arguments of the one call of a file (specification SpecFix).
MaxArgs == 3

---------------------------------------------------------------------------
(* JavaScript values: strings, undefined, null *)

Undefined == [t |-> "undefined", v |-> <<>>]

Null == [t |-> "null", v |-> <<>>]

Str(s) == [t |-> "string", v |-> s]

\* a ?? b
Coalesce(a, b) == IF a.t \in {"undefined", "null"} THEN b ELSE a

\* Boolean(x), the predicate of .filter(Boolean): a string is truthy unless empty
Truthy(x) == x.t = "string" /\ x.v # <<>>

\* `${x}` inside a template literal
Interpolate(x) ==
    CASE x.t = "string" -> x.v
      [] x.t = "undefined" -> <<"undefined">>
      [] OTHER -> <<"null">>

\* Array.prototype.filter(Boolean)
RECURSIVE FilterBoolean(_)
FilterBoolean(list) ==
    IF list = <<>> THEN <<>>
    ELSE IF Truthy(Head(list)) THEN <<Head(list)>> \o FilterBoolean(Tail(list))
    ELSE FilterBoolean(Tail(list))

\* Array.prototype.join(","): undefined and null elements give the empty string
RECURSIVE JoinComma(_)
JoinComma(list) ==
    IF list = <<>> THEN <<>>
    ELSE LET item == IF Head(list).t = "string" THEN Head(list).v ELSE <<>>
         IN IF Tail(list) = <<>> THEN item
            ELSE item \o <<",">> \o JoinComma(Tail(list))

---------------------------------------------------------------------------
(* AST nodes that occur as call arguments *)

Literal(raw) ==
    [type |-> "Literal", raw |-> Str(<<raw>>), name |-> Undefined, quasis |-> <<>>]

Identifier(name) ==
    [type |-> "Identifier", raw |-> Undefined, name |-> Str(<<name>>), quasis |-> <<>>]

\* quasis: the cooked text of each quasi; n quasis surround n-1 interpolations
TemplateLiteral(quasis) ==
    [type |-> "TemplateLiteral", raw |-> Undefined, name |-> Undefined, quasis |-> quasis]

\* any other expression: a call foo(), a member access console.error, ...
ComplexExpression ==
    [type |-> "CallExpression", raw |-> Undefined, name |-> Undefined, quasis |-> <<>>]

\* the value of an array element that does not exist
NoNode ==
    [type |-> "undefined", raw |-> Undefined, name |-> Undefined, quasis |-> <<>>]

PlainTemplate == TemplateLiteral(<< <<"hi">> >>)                 \* `hi`

InterpolatedTemplate == TemplateLiteral(<< <<"hi ">>, <<>> >>)   \* `hi ${x}`

ArgNodes ==
    { Literal("'msg'"), Identifier("err"), Identifier("ctx"),
      PlainTemplate, InterpolatedTemplate, ComplexExpression }

\* argv[i], undefined past the end
Nth(argv, i) == IF i <= Len(argv) THEN argv[i] ELSE NoNode

---------------------------------------------------------------------------
(* The scope manager's data and the scope resolver *)

\* the scope context.getScope() gives the Program handler: the global scope
GlobalScope == 1

\* scope.set.get(name) of a name the scope does not bind
NoVariable == [bound |-> FALSE, defs |-> 0, references |-> <<>>]

\* getVariableByName(initScope, name): the nearest binding on the chain of
\* upper scopes, or null (NoVariable).  Scope 0 is null / undefined.
RECURSIVE getVariableByName(_, _, _)
getVariableByName(chain, initScope, name) ==
    IF initScope = 0 THEN NoVariable
    ELSE IF chain[initScope].set[name].bound THEN chain[initScope].set[name]
    ELSE getVariableByName(chain, chain[initScope].upper, name)

\* sourceCode.scopeManager.globalScope.childScopes[0], undefined (0) when the
\* global scope has no child scope
FirstChildScope(chain) ==
    IF chain[GlobalScope].childScopes = <<>> THEN 0
    ELSE chain[GlobalScope].childScopes[1]

\* isLoggerDefined, were `logger` resolved from the global scope itself
IsLoggerDefinedInGlobalScope(chain) ==
    getVariableByName(chain, GlobalScope, "logger").bound

\* isLoggerDefined of report(): truthy when `logger` resolves from the first
\* child scope of the global scope
IsLoggerDefined(chain) ==
    getVariableByName(chain, FirstChildScope(chain), "logger").bound

---------------------------------------------------------------------------
(* The fix callback *)

\* path.parse(filePath).name: the last path segment without its extension
RECURSIVE BaseName(_)
BaseName(path) ==
    IF \E i \in 1..Len(path) : path[i] = "/"
    THEN BaseName(Tail(path))
    ELSE path

Extensions == {".ts", ".js"}

PathName(path) ==
    LET base == BaseName(path)
    IN IF Len(base) > 1 /\ base[Len(base)] \in Extensions
       THEN SubSeq(base, 1, Len(base) - 1)
       ELSE base

\* the text inserted before the program: the import and the moduleLogger declaration
PrologueText(fileName) ==
    << "import { logger } from 'lib/logger';",
       "const moduleLogger = logger.child({ namespace: ['" >>
    \o fileName \o << "'] })" >>

\* fixer.insertTextBefore(sourceCode.ast, ...)
InsertPrologue(path) ==
    [kind |-> "insertTextBefore", target |-> 0, text |-> PrologueText(PathName(path))]

\* ...(isLoggerDefined ? [] : [fixer.insertTextBefore(...)])
PrologueEdits(isLoggerDefined, path) ==
    IF isLoggerDefined THEN <<>> ELSE <<InsertPrologue(path)>>

\* fixer.replaceText(consoleCallNode, text); the node is named by the
\* reference it was reached from
ReplaceText(loc, text) ==
    [kind |-> "replaceText", target |-> loc, text |-> text]

\* outcomes of a fix callback
Pending == [status |-> "pending", edits |-> <<>>]

Threw == [status |-> "threw", edits |-> <<>>]

ReturnedUndefined == [status |-> "undefined", edits |-> <<>>]

Returned(edits) == [status |-> "edits", edits |-> edits]

\* error / warn without the swap of the first two arguments
ErrorOrWarningUnswapped(argv) == <<Nth(argv, 1), Nth(argv, 2)>>

\* [errorOrWarning, errorTextOrWarningText]: the argument alone when there
\* is exactly one, else the second argument and then the first
ErrorOrWarning(argv) ==
    IF Len(argv) = 1 THEN <<Nth(argv, 1), NoNode>> ELSE <<Nth(argv, 2), Nth(argv, 1)>>

\* x?.raw ?? x?.name ?? null
RawOrName(arg) == Coalesce(Coalesce(arg.raw, arg.name), Null)

\* parsedargv of the error / warn case
ParsedArgv(argv) ==
    LET pair == ErrorOrWarning(argv)
        restArgs == SubSeq(argv, 3, Len(argv))
        parsedErrorOrWarning == Coalesce(pair[1].raw, pair[1].name)
        parsedErrorTextOrWarningText == RawOrName(pair[2])
        parsedrestArgs ==
            FilterBoolean([i \in 1..Len(restArgs) |-> RawOrName(restArgs[i])])
    IN JoinComma(FilterBoolean(
           <<parsedErrorOrWarning, parsedErrorTextOrWarningText>> \o parsedrestArgs))

\* `moduleLogger.${consoleMethod}(${args})`
ModuleLoggerCall(method, args) ==
    <<"moduleLogger.">> \o Interpolate(method) \o <<"(">> \o args \o <<")">>

\* case "error": case "warn":
FixErrorOrWarn(rep, path) ==
    IF ~rep.node.hasArguments
    THEN Threw      \* destructuring undefined
    ELSE IF ErrorOrWarning(rep.node.arguments)[1].type = "undefined"
    THEN Threw      \* errorOrWarning.raw of undefined
    ELSE Returned(PrologueEdits(rep.isLoggerDefined, path)
                  \o <<ReplaceText(rep.loc,
                         ModuleLoggerCall(rep.method, ParsedArgv(rep.node.arguments)))>>)

\* the back quote that opens and closes a template literal
BackQuote == "<backquote>"

\* makeCookedTemplateLitteral(arg)
MakeCookedTemplateLitteral(arg) ==
    LET cooked == IF arg.quasis = <<>> THEN Undefined ELSE Str(arg.quasis[1])
    IN IF Truthy(cooked) THEN Str(<<BackQuote>> \o cooked.v \o <<BackQuote>>) ELSE Null

\* makeCookedTemplateLitteral(arg) ?? arg.raw ?? arg.name
InfoArg(arg) == Coalesce(Coalesce(MakeCookedTemplateLitteral(arg), arg.raw), arg.name)

\* case "info":
FixInfo(rep, path) ==
    IF ~rep.node.hasArguments
    THEN Threw      \* argv.map of undefined
    ELSE LET argv == rep.node.arguments
         IN Returned(PrologueEdits(rep.isLoggerDefined, path)
                     \o <<ReplaceText(rep.loc,
                            ModuleLoggerCall(Str(<<"info">>),
                                JoinComma([i \in 1..Len(argv) |-> InfoArg(argv[i])])))>>)

\* fix: function (fixer) { switch (consoleMethod) ... }
Fix(rep, path) ==
    CASE rep.method \in {Str(<<"error">>), Str(<<"warn">>)} -> FixErrorOrWarn(rep, path)
      [] rep.method = Str(<<"info">>) -> FixInfo(rep, path)
      [] OTHER -> ReturnedUndefined

---------------------------------------------------------------------------
(* The rule: isMemberAccess, report and the Program handler *)

\* isMemberAccess(reference)
isMemberAccess(reference) ==
    reference.parent.type = "MemberExpression" /\ reference.parent.isObject

\* node.parent.property.name of a reference
ConsoleMethod(reference) == reference.parent.property

\* report(reference): the descriptor handed to context.report.  node is
\* node.parent.parent, loc the place of the reference (its index in the file)
Report(i, allRefs, chain) ==
    [ node |-> allRefs[i].gp,
      loc |-> i,
      method |-> ConsoleMethod(allRefs[i]),
      message |-> <<"No native console.">> \o Interpolate(ConsoleMethod(allRefs[i]))
                  \o <<" allowed, use moduleLogger.">>
                  \o Interpolate(ConsoleMethod(allRefs[i])) \o <<" instead">>,
      isLoggerDefined |-> IsLoggerDefined(chain) ]

\* shadowed, were a single definition not enough to shadow
ShadowedByTwo(consoleVar) == consoleVar.bound /\ consoleVar.defs > 1

\* const shadowed = consoleVar && consoleVar.defs.length > 0
Shadowed(consoleVar) == consoleVar.bound /\ consoleVar.defs > 0

\* the filter, were only error, warn and info reported
ReportedOnlyFixable(references, allRefs) ==
    SelectSeq(references,
              LAMBDA i : /\ isMemberAccess(allRefs[i])
                         /\ ConsoleMethod(allRefs[i]) \in
                              {Str(<<"error">>), Str(<<"warn">>), Str(<<"info">>)})

\* references.filter(isMemberAccess).filter(method !== "consoleFn")
Reported(references, allRefs) ==
    SelectSeq(references,
              LAMBDA i : /\ isMemberAccess(allRefs[i])
                         /\ ConsoleMethod(allRefs[i]) # Str(<<"consoleFn">>))

\* Program(): the whole handler.  With no binding of `console` the handler
\* evaluates scope.through.filter(isConsole), and isConsole is declared
\* nowhere: the evaluation raises a ReferenceError.
Program ==
    /\ pc = "ready"
    /\ LET consoleVar == getVariableByName(scopes, GlobalScope, "console")
           shadowed == Shadowed(consoleVar)
           reported == Reported(consoleVar.references, refs)
       IN IF ~consoleVar.bound
          THEN /\ pc' = "crashed"
               /\ error' = "ReferenceError"
               /\ reports' = <<>>
          ELSE /\ pc' = "linted"
               /\ error' = "none"
               /\ reports' = IF shadowed THEN <<>>
                             ELSE [k \in 1..Len(reported) |->
                                      Report(reported[k], refs, scopes)]
    /\ fixes' = [k \in 1..Len(reports') |-> Pending]
    /\ UNCHANGED <<filePath, refs, scopes>>

\* the host calls the fix callback of report i (each report's once, in any order)
InvokeFix(i) ==
    /\ pc = "linted"
    /\ i \in 1..Len(reports)
    /\ fixes[i] = Pending
    /\ fixes' = [fixes EXCEPT ![i] = Fix(reports[i], filePath)]
    /\ UNCHANGED <<filePath, refs, scopes, pc, error, reports>>

---------------------------------------------------------------------------
(* The files the model lints *)

FilePaths == { <<"src", "/", "api", ".ts">>, <<"index", ".js">> }

Methods == {"error", "warn", "info", "log", "consoleFn"}

\* a call expression: the parent of the member access is its callee, or one
\* of its arguments
CallNode(calleeIsParent, arguments) ==
    [type |-> "CallExpression", calleeIsParent |-> calleeIsParent,
     hasArguments |-> TRUE, arguments |-> arguments]

\* a node without arguments, as in `const f = console.error`
DeclaratorNode ==
    [type |-> "VariableDeclarator", calleeIsParent |-> FALSE,
     hasArguments |-> FALSE, arguments |-> <<>>]

\* console.<method> with grandparent gp
MemberRef(method, gp) ==
    [name |-> "console",
     parent |-> [type |-> "MemberExpression", isObject |-> TRUE,
                 property |-> Str(<<method>>)],
     gp |-> gp]

\* foo(console)
BareRef ==
    [name |-> "console",
     parent |-> [type |-> "CallExpression", isObject |-> FALSE, property |-> Undefined],
     gp |-> DeclaratorNode]

\* foo[console]
PropertyRef ==
    [name |-> "console",
     parent |-> [type |-> "MemberExpression", isObject |-> FALSE,
                 property |-> Str(<<"console">>)],
     gp |-> DeclaratorNode]

\* foo.error(err), a reference to another unresolved name
OtherRef ==
    [name |-> "foo",
     parent |-> [type |-> "MemberExpression", isObject |-> TRUE,
                 property |-> Str(<<"error">>)],
     gp |-> CallNode(TRUE, <<Identifier("err")>>)]

ArgLists(n) == UNION { [1..k -> ArgNodes] : k \in 0..n }

HasComplex(args) == \E i \in 1..Len(args) : args[i] = ComplexExpression

\* the references of a file of several references
FileRefs ==
    { MemberRef(m, CallNode(TRUE, a)) : m \in Methods, a \in {<<>>, <<Identifier("err")>>} }
    \cup { MemberRef(m, CallNode(FALSE, <<ComplexExpression>>)) : m \in Methods }
    \cup { MemberRef(m, DeclaratorNode) : m \in Methods }
    \cup { BareRef, PropertyRef, OtherRef }

Files == UNION { [1..n -> FileRefs] : n \in 0..MaxRefs }

\* the one reference of a file of one member access
CallRefs ==
    { MemberRef(m, CallNode(TRUE, a)) : m \in Methods, a \in ArgLists(MaxArgs) }
    \cup { MemberRef(m, CallNode(FALSE, a)) :
             m \in Methods, a \in {x \in ArgLists(MaxArgs) : HasComplex(x)} }
    \cup { MemberRef(m, DeclaratorNode) : m \in Methods }

\* the indices of the references rs, in source order
Indices(rs) == [i \in 1..Len(rs) |-> i]

\* The scope chain the scope manager builds for references rs: `console` is
\* unbound, ambient (bound without a definition) or declared in the global
\* scope; `logger` may be bound in the global scope and in a child scope.
ScopeChain(rs, console, loggerInGlobal, child) ==
    LET IsConsole(i) == rs[i].name = "console"
        Unresolved(i) == rs[i].name # "console" \/ console = "unbound"
        consoleVar == IF console = "unbound" THEN NoVariable
                      ELSE [bound |-> TRUE,
                            defs |-> IF console = "declared" THEN 1 ELSE 0,
                            references |-> SelectSeq(Indices(rs), IsConsole)]
        loggerVar == [bound |-> TRUE, defs |-> 1, references |-> <<>>]
        global == [set |-> [n \in {"console", "logger"} |->
                              IF n = "console" THEN consoleVar
                              ELSE IF loggerInGlobal THEN loggerVar ELSE NoVariable],
                   upper |-> 0,
                   childScopes |-> IF child = "none" THEN <<>> ELSE <<2>>,
                   through |-> SelectSeq(Indices(rs), Unresolved)]
        module == [set |-> [n \in {"console", "logger"} |->
                              IF n = "logger" /\ child = "logger" THEN loggerVar
                              ELSE NoVariable],
                   upper |-> 1,
                   childScopes |-> <<>>,
                   through |-> SelectSeq(Indices(rs), Unresolved)]
    IN IF child = "none" THEN <<global>> ELSE <<global, module>>

ScopeChains(rs, consoles) ==
    { ScopeChain(rs, c, g, m) :
        c \in consoles, g \in BOOLEAN, m \in {"none", "plain", "logger"} }

Start ==
    /\ pc = "ready"
    /\ error = "none"
    /\ reports = <<>>
    /\ fixes = <<>>

\* any file of at most MaxRefs references
Init ==
    /\ filePath \in FilePaths
    /\ refs \in Files
    /\ scopes \in ScopeChains(refs, {"unbound", "ambient", "declared"})
    /\ Start

\* a file of one member access on the ambient console
InitFix ==
    /\ filePath \in FilePaths
    /\ refs \in { <<r>> : r \in CallRefs }
    /\ scopes \in ScopeChains(refs, {"ambient"})
    /\ Start

Next ==
    \/ Program
    \/ \E i \in 1..Len(reports) : InvokeFix(i)

Spec == Init /\ [][Next]_vars

SpecFix == InitFix /\ [][Next]_vars

---------------------------------------------------------------------------
(* Vocabulary of the properties *)

FixableMethods == {Str(<<"error">>), Str(<<"warn">>), Str(<<"info">>)}

\* the node is a call whose callee is the console.<method> member access
IsConsoleCall(node) == node.type = "CallExpression" /\ node.calleeIsParent

\* reference i is console.<something>, called or not
IsConsoleMemberAccess(i) ==
    /\ refs[i].name = "console"
    /\ refs[i].parent.type = "MemberExpression"
    /\ refs[i].parent.isObject

\* `console` resolved from the top scope of the file
ConsoleBinding == getVariableByName(scopes, GlobalScope, "console")

\* `logger` is bound in the first child scope of the root scope
LoggerInFirstChildScope ==
    /\ scopes[1].childScopes # <<>>
    /\ scopes[scopes[1].childScopes[1]].set["logger"].bound

\* `logger` is bound nowhere
NoLoggerBinding == \A s \in 1..Len(scopes) : ~scopes[s].set["logger"].bound

\* the fix of report k was called and returned a list of edits
Fixed(k) == fixes[k].status = "edits"

\* the last edit of the fix of report k
LastEdit(k) == fixes[k].edits[Len(fixes[k].edits)]

\* the text between the parentheses of moduleLogger.<method>( ... )
ArgumentText(k) == SubSeq(LastEdit(k).text, 4, Len(LastEdit(k).text) - 1)

\* the source text of a literal or an identifier
SourceText(arg) == IF arg.type = "Literal" THEN arg.raw.v ELSE arg.name.v

RECURSIVE CommaSeparated(_)
CommaSeparated(texts) ==
    IF texts = <<>> THEN <<>>
    ELSE IF Len(texts) = 1 THEN texts[1]
    ELSE texts[1] \o <<",">> \o CommaSeparated(Tail(texts))

CallText(method, texts) ==
    <<"moduleLogger.", method, "(">> \o CommaSeparated(texts) \o <<")">>

---------------------------------------------------------------------------
(* C1 *)

\* C1: when `console`, resolved from the top scope of the file, is a binding
\* with at least one definition, the Program pass returns and has made no
\* report, whatever member accesses on console the file holds.
ShadowedFileHasNoReports ==
    (pc # "ready" /\ ConsoleBinding.bound /\ ConsoleBinding.defs >= 1)
        => (pc = "linted" /\ reports = <<>>)

\* a linted file that declares console and calls console.error and console.warn
ShadowedFileWitness ==
    /\ pc = "linted"
    /\ ConsoleBinding.bound /\ ConsoleBinding.defs >= 1
    /\ Len(refs) = 2
    /\ \A i \in 1..2 : IsConsoleMemberAccess(i) /\ IsConsoleCall(refs[i].gp)
    /\ ConsoleMethod(refs[1]) = Str(<<"error">>)
    /\ ConsoleMethod(refs[2]) = Str(<<"warn">>)
    /\ reports = <<>>

---------------------------------------------------------------------------
(* C2 *)

\* the prologue insertions among the edits of all fixes
PrologueInsertions ==
    UNION { { <<k, j>> : j \in { e \in 1..Len(fixes[k].edits) :
                                   fixes[k].edits[e].kind = "insertTextBefore" } } :
            k \in 1..Len(fixes) }

\* C2: in a file without a logger binding, once every report's fix has run
\* and at least one error / warn / info occurrence was fixed, the edits of
\* all the reports together hold exactly one prologue insertion, and it
\* carries the namespace derived from the file's name.
OnePrologueInsertionPerFile ==
    ( /\ pc = "linted"
      /\ NoLoggerBinding
      /\ \A k \in 1..Len(fixes) : fixes[k] # Pending
      /\ \E k \in 1..Len(fixes) : Fixed(k) /\ reports[k].method \in FixableMethods )
    => /\ Cardinality(PrologueInsertions) = 1
       /\ \A p \in PrologueInsertions :
            fixes[p[1]].edits[p[2]].text = PrologueText(PathName(filePath))

---------------------------------------------------------------------------
(* C3 *)

\* C3: when `logger` is bound in the first child scope of the root scope,
\* every edit list a fix returns is the replacement of the report's node
\* alone: no prologue insertion, for any number of occurrences and for each
\* of error, warn and info.
LoggerBoundNoPrologue ==
    LoggerInFirstChildScope =>
        \A k \in 1..Len(fixes) :
            Fixed(k) =>
                /\ Len(fixes[k].edits) = 1
                /\ fixes[k].edits[1].kind = "replaceText"
                /\ fixes[k].edits[1].target = reports[k].loc

\* logger is bound in the child scope only, and two occurrences of
\* different methods were both fixed
LoggerBoundWitness ==
    /\ LoggerInFirstChildScope
    /\ ~scopes[1].set["logger"].bound
    /\ Len(reports) = 2
    /\ Fixed(1) /\ Fixed(2)
    /\ reports[1].method = Str(<<"info">>)
    /\ reports[2].method = Str(<<"error">>)

---------------------------------------------------------------------------
(* C4 *)

\* report k is a console.error / console.warn call whose arguments (at
\* least one) are all literals or identifiers
TextualizableErrorOrWarn(k) ==
    /\ reports[k].method \in {Str(<<"error">>), Str(<<"warn">>)}
    /\ IsConsoleCall(reports[k].node)
    /\ Len(reports[k].node.arguments) >= 1
    /\ \A j \in 1..Len(reports[k].node.arguments) :
          reports[k].node.arguments[j].type \in {"Literal", "Identifier"}

\* [a1] for one argument, [a2, a1, a3, ..., an] otherwise
SwappedOrder(argv) ==
    IF Len(argv) = 1 THEN argv
    ELSE <<argv[2], argv[1]>> \o SubSeq(argv, 3, Len(argv))

\* C4: the fix of an error / warn call with textualizable arguments a1..an
\* replaces the call by moduleLogger.<method>(...) with the same method and
\* the arguments [a1] when n = 1, [a2, a1, a3, ..., an] when n >= 2, joined
\* by commas.
ErrorWarnArgumentOrder ==
    \A k \in 1..Len(fixes) :
        (fixes[k] # Pending /\ TextualizableErrorOrWarn(k)) =>
            LET argv == SwappedOrder(reports[k].node.arguments)
            IN /\ Fixed(k)
               /\ LastEdit(k) =
                    ReplaceText(reports[k].loc,
                        CallText(reports[k].method.v[1],
                                 [j \in 1..Len(argv) |-> SourceText(argv[j])]))

\* console.warn('msg', err, ctx) was fixed
ErrorWarnArgumentOrderWitness ==
    /\ Len(reports) = 1
    /\ fixes[1] # Pending
    /\ reports[1].method = Str(<<"warn">>)
    /\ IsConsoleCall(reports[1].node)
    /\ reports[1].node.arguments =
          <<Literal("'msg'"), Identifier("err"), Identifier("ctx")>>

---------------------------------------------------------------------------
(* C5 *)

---------------------------------------------------------------------------
(* C6 *)

\* C6: when `console` has no binding on the scope chain of the top scope,
\* the Program pass returns without an error, and its reports are those of
\* the member accesses among the unresolved references that name console.
UnboundConsoleIsLinted ==
    (pc # "ready" /\ ~ConsoleBinding.bound) =>
        /\ pc = "linted"
        /\ error = "none"
        /\ [k \in 1..Len(reports) |-> reports[k].loc] =
             Reported(SelectSeq(scopes[GlobalScope].through,
                                LAMBDA i : refs[i].name = "console"), refs)

---------------------------------------------------------------------------
(* C7 *)

\* the text C7 gives an argument that is not an interpolated template
InfoText(arg) ==
    IF arg.type = "TemplateLiteral"
    THEN <<BackQuote>> \o arg.quasis[1] \o <<BackQuote>>
    ELSE SourceText(arg)

IsInterpolated(arg) == arg.type = "TemplateLiteral" /\ Len(arg.quasis) > 1

\* C7: the fix of an info call keeps the arguments in order; a template
\* literal without interpolation becomes its back-quoted cooked text, a
\* literal its raw text, an identifier its name; and a template literal
\* with an interpolation is not rewritten to the template of its first
\* text segment.
InfoTemplateOnlyWithoutInterpolation ==
    \A k \in 1..Len(fixes) :
        ( /\ Fixed(k)
          /\ reports[k].method = Str(<<"info">>)
          /\ IsConsoleCall(reports[k].node)
          /\ \A j \in 1..Len(reports[k].node.arguments) :
                reports[k].node.arguments[j].type
                    \in {"Literal", "Identifier", "TemplateLiteral"} )
        => LET argv == reports[k].node.arguments
               rendered == CallText("info", [j \in 1..Len(argv) |-> InfoText(argv[j])])
           IN IF \E j \in 1..Len(argv) : IsInterpolated(argv[j])
              THEN LastEdit(k).text # rendered
              ELSE LastEdit(k).text = rendered

---------------------------------------------------------------------------
(* C8 *)

\* C8: the fix of a reported console.error / warn / info call never raises:
\* for every argument list, the empty one included, it returns a list of
\* edits whose last element replaces the call.
FixNeverAborts ==
    \A k \in 1..Len(fixes) :
        ( /\ fixes[k] # Pending
          /\ reports[k].method \in FixableMethods
          /\ IsConsoleCall(reports[k].node) )
        => /\ Fixed(k)
           /\ LastEdit(k).kind = "replaceText"
           /\ LastEdit(k).target = reports[k].loc

---------------------------------------------------------------------------
(* C9 *)

\* C9: for error, warn and info alike, the argument list of the replacement
\* has one entry per argument that is a literal or an identifier (template
\* literals left aside), so one comma less than entries, and no leading,
\* trailing or doubled comma where an argument was dropped.
ComplexArgumentsDropped ==
    \A k \in 1..Len(fixes) :
        ( /\ Fixed(k)
          /\ reports[k].method \in FixableMethods
          /\ IsConsoleCall(reports[k].node)
          /\ \A j \in 1..Len(reports[k].node.arguments) :
                reports[k].node.arguments[j].type # "TemplateLiteral" )
        => LET argv == reports[k].node.arguments
               text == ArgumentText(k)
               entries == Cardinality({ j \in 1..Len(argv) :
                              argv[j].type \in {"Literal", "Identifier"} })
               commas == Cardinality({ j \in 1..Len(text) : text[j] = "," })
           IN /\ commas = IF entries = 0 THEN 0 ELSE entries - 1
              /\ text # <<>> => (text[1] # "," /\ text[Len(text)] # ",")
              /\ \A j \in 1..(Len(text) - 1) : ~(text[j] = "," /\ text[j + 1] = ",")

---------------------------------------------------------------------------
(* C10 *)

\* C10: the node of every report, which its replacement overwrites, is a
\* call expression whose callee is the reported console.<method> member
\* access; a member access that is not called is not reported.
ReportsTargetConsoleCalls ==
    \A k \in 1..Len(reports) :
        /\ reports[k].node.type = "CallExpression"
        /\ reports[k].node.calleeIsParent

===========================================================================
